---- MODULE Spec2Model ----
(***************************************************************************)
(* Model of src/script.js (class PokemonMaster): the batch loader, the     *)
(* record transformer, the filter/sort/paginate pipeline and the favorites *)
(* store, and the details modal.                                           *)
(*                                                                         *)
(* Strings are sequences of character codes (ASCII), so that toLowerCase,  *)
(* toUpperCase, padStart, includes, localeCompare, JSON.stringify and      *)
(* JSON.parse are computed as the code computes them.                      *)
(***************************************************************************)
EXTENDS Integers, Sequences, FiniteSets, TLC

(***************************************************************************)
(* Sizes.  The program loads 151 records in batches of 20 and shows pages  *)
(* of 20 (script.js lines 130, 134, 8).  The model keeps the same code     *)
(* with these three numbers scaled down so that every failure pattern and  *)
(* every completion order can be enumerated.  A batch is larger than a     *)
(* page here, so that a second page already exists while later batches are *)
(* still being fetched (in the program that takes two arrived batches and  *)
(* one filter change).                                                     *)
(***************************************************************************)
totalPokemon == 4
batchSize == 3
pokemonPerPage == 2

\* The number of user actions (listener calls) a behaviour contains.
MaxUserOps == 2

(***************************************************************************)
(* Character-level helpers (String.prototype methods used by the code).    *)
(***************************************************************************)
ToLowerChar(c) == IF c >= 65 /\ c <= 90 THEN c + 32 ELSE c
ToUpperChar(c) == IF c >= 97 /\ c <= 122 THEN c - 32 ELSE c

toLowerCase(s) == [k \in 1..Len(s) |-> ToLowerChar(s[k])]

\* string.charAt(0).toUpperCase() + string.slice(1)
capitalizeFirstLetter(s) ==
    IF Len(s) = 0 THEN <<>> ELSE <<ToUpperChar(s[1])>> \o Tail(s)

\* Number.prototype.toString(): decimal digits, most significant first
RECURSIVE toString(_)
toString(n) ==
    IF n < 10 THEN <<48 + n>> ELSE toString(n \div 10) \o <<48 + (n % 10)>>

\* String.prototype.padStart(targetLength, padChar)
RECURSIVE padStart(_, _, _)
padStart(s, targetLength, c) ==
    IF Len(s) >= targetLength THEN s ELSE padStart(<<c>> \o s, targetLength, c)

\* String.prototype.includes: substring match at any offset
includes(s, t) ==
    \E k \in 0..(Len(s) - Len(t)) : SubSeq(s, k + 1, k + Len(t)) = t

\* Array.prototype.includes on an array of strings
arrayIncludes(arr, x) == \E k \in 1..Len(arr) : arr[k] = x

\* Lexicographic three-way comparison of two code sequences
RECURSIVE LexCompare(_, _)
LexCompare(a, b) ==
    IF Len(a) = 0 /\ Len(b) = 0 THEN 0
    ELSE IF Len(a) = 0 THEN -1
    ELSE IF Len(b) = 0 THEN 1
    ELSE IF a[1] < b[1] THEN -1
    ELSE IF a[1] > b[1] THEN 1
    ELSE LexCompare(Tail(a), Tail(b))

\* Case weight of the default collation: a lowercase letter sorts before the
\* same letter in uppercase when the strings are otherwise equal.
CaseWeight(s) == [k \in 1..Len(s) |-> IF s[k] >= 65 /\ s[k] <= 90 THEN 1 ELSE 0]

\* String.prototype.localeCompare on letters and digits: the letters decide
\* first, case only breaks ties.
localeCompare(a, b) ==
    LET primary == LexCompare(toLowerCase(a), toLowerCase(b))
    IN  IF primary # 0 THEN primary ELSE LexCompare(CaseWeight(a), CaseWeight(b))

(***************************************************************************)
(* The remote data source: the payload /pokemon/{id} returns.  Names are   *)
(* lowercase; every payload has at least one type.                         *)
(***************************************************************************)
fire == <<102, 105, 114, 101>>
grass == <<103, 114, 97, 115, 115>>
poison == <<112, 111, 105, 115, 111, 110>>
all == <<97, 108, 108>>

\* name of id: its binary digits, least significant first, 0 -> "a", 1 -> "b"
RECURSIVE RemoteName(_)
RemoteName(id) ==
    IF id = 0 THEN <<>> ELSE <<97 + (id % 2)>> \o RemoteName(id \div 2)

RemoteTypes(id) ==
    IF id % 3 = 1 THEN <<poison, grass>>
    ELSE IF id % 3 = 2 THEN <<fire>>
    ELSE <<fire, poison>>

RemoteData(id) == [id |-> id, name |-> RemoteName(id), types |-> RemoteTypes(id)]

\* transformPokemonData: the fields the pipeline reads
transformPokemonData(data) ==
    [id          |-> data.id,
     name        |-> data.name,
     displayName |-> capitalizeFirstLetter(data.name),
     number      |-> padStart(toString(data.id), 3, 48),
     types       |-> data.types]

(***************************************************************************)
(* Array and Set helpers.  A Set is kept as the sequence of its elements   *)
(* in insertion order (the order Array.from(set) yields).                  *)
(***************************************************************************)
SetHas(set, x) == \E k \in 1..Len(set) : set[k] = x
SetAdd(set, x) == IF SetHas(set, x) THEN set ELSE Append(set, x)
SetDelete(set, x) == SelectSeq(set, LAMBDA y : y # x)
Elems(seq) == {seq[k] : k \in 1..Len(seq)}

\* new Set(iterable): insert in order, duplicates ignored
RECURSIVE NewSet(_)
NewSet(arr) ==
    IF Len(arr) = 0 THEN <<>>
    ELSE SetAdd(NewSet(SubSeq(arr, 1, Len(arr) - 1)), arr[Len(arr)])

\* Math.ceil(a / b) for a >= 0, b > 0
ceilDiv(a, b) == (a + b - 1) \div b

Min(a, b) == IF a < b THEN a ELSE b

\* Array.prototype.slice(0, end)
slice0(arr, end) == SubSeq(arr, 1, Min(end, Len(arr)))

(***************************************************************************)
(* JSON.stringify / JSON.parse on arrays of non-negative integers.         *)
(***************************************************************************)
RECURSIVE joinNumbers(_)
joinNumbers(arr) ==
    IF Len(arr) = 0 THEN <<>>
    ELSE IF Len(arr) = 1 THEN toString(arr[1])
    ELSE toString(arr[1]) \o <<44>> \o joinNumbers(Tail(arr))

JSONstringify(arr) == <<91>> \o joinNumbers(arr) \o <<93>>

IsDigit(c) == c >= 48 /\ c <= 57

\* a JSON number token: digits only, no leading zero
IsNumberToken(t) ==
    /\ Len(t) > 0
    /\ \A k \in 1..Len(t) : IsDigit(t[k])
    /\ (Len(t) > 1 => t[1] # 48)

RECURSIVE parseNumber(_)
parseNumber(t) ==
    IF Len(t) = 0 THEN 0
    ELSE 10 * parseNumber(SubSeq(t, 1, Len(t) - 1)) + (t[Len(t)] - 48)

\* split a text at every comma
RECURSIVE splitComma(_, _)
splitComma(text, cur) ==
    IF Len(text) = 0 THEN <<cur>>
    ELSE IF text[1] = 44 THEN <<cur>> \o splitComma(Tail(text), <<>>)
    ELSE splitComma(Tail(text), Append(cur, text[1]))

\* JSON.parse: [ok |-> FALSE] stands for the SyntaxError it throws
JSONparse(text) ==
    IF Len(text) < 2 \/ text[1] # 91 \/ text[Len(text)] # 93
    THEN [ok |-> FALSE, value |-> <<>>]
    ELSE LET inner == SubSeq(text, 2, Len(text) - 1)
             toks == splitComma(inner, <<>>)
         IN  IF Len(inner) = 0 THEN [ok |-> TRUE, value |-> <<>>]
             ELSE IF \A k \in 1..Len(toks) : IsNumberToken(toks[k])
             THEN [ok |-> TRUE, value |-> [k \in 1..Len(toks) |-> parseNumber(toks[k])]]
             ELSE [ok |-> FALSE, value |-> <<>>]

\* localStorage.getItem result: absent key (null) or a text
NoItem == [has |-> FALSE, text |-> <<>>]
Item(text) == [has |-> TRUE, text |-> text]

\* loadFavorites: the Set after reading the store; a missing or empty item
\* and a parse error all leave the constructor's empty Set
loadFavorites(saved) ==
    IF saved.has /\ Len(saved.text) > 0
    THEN LET parsed == JSONparse(saved.text)
         IN  IF parsed.ok THEN NewSet(parsed.value) ELSE <<>>
    ELSE <<>>

(***************************************************************************)
(* applyFilters: filter, then sort.                                        *)
(***************************************************************************)
matchesSearch(p, search) ==
    \/ includes(p.name, search)
    \/ includes(toLowerCase(p.displayName), search)
    \/ includes(p.number, search)

searchFilter(list, search) ==
    IF Len(search) > 0
    THEN SelectSeq(list, LAMBDA p : matchesSearch(p, search))
    ELSE list

\* variant: only the primary type is compared
typeFilterPrimaryOnly(list, type) ==
    IF type # all
    THEN SelectSeq(list, LAMBDA p : p.types[1] = type)
    ELSE list

typeFilter(list, type) ==
    IF type # all
    THEN SelectSeq(list, LAMBDA p : arrayIncludes(p.types, type))
    ELSE list

favoritesFilter(list, showFavorites, favs) ==
    IF showFavorites
    THEN SelectSeq(list, LAMBDA p : SetHas(favs, p.id))
    ELSE list

\* variant: the number comparator with its operands swapped
compareFnSwapped(sort, a, b) ==
    CASE sort = "name" -> localeCompare(a.displayName, b.displayName)
      [] sort = "type" -> localeCompare(a.types[1], b.types[1])
      [] OTHER         -> b.id - a.id

\* the comparator handed to Array.prototype.sort
compareFn(sort, a, b) ==
    CASE sort = "name" -> localeCompare(a.displayName, b.displayName)
      [] sort = "type" -> localeCompare(a.types[1], b.types[1])
      [] OTHER         -> a.id - b.id

\* stable insertion of x: after every element that does not compare greater
RECURSIVE insertSorted(_, _, _)
insertSorted(sorted, x, sort) ==
    IF Len(sorted) = 0 THEN <<x>>
    ELSE IF compareFn(sort, sorted[Len(sorted)], x) <= 0 THEN Append(sorted, x)
    ELSE CHOOSE result \in
             {Append(front, sorted[Len(sorted)]) :
                  front \in {insertSorted(SubSeq(sorted, 1, Len(sorted) - 1),
                                          x, sort)}} : TRUE

\* Array.prototype.sort(compareFn): a stable sort
RECURSIVE sortBy(_, _)
sortBy(list, sort) ==
    IF Len(list) = 0 THEN <<>>
    ELSE \* the sorted front is computed once, then the last element inserted
         CHOOSE result \in
             {insertSorted(front, list[Len(list)], sort) :
                  front \in {sortBy(SubSeq(list, 1, Len(list) - 1), sort)}} : TRUE

\* the value applyFilters assigns to this.filteredPokemon
filterAndSort(list, cf, favs) ==
    sortBy(favoritesFilter(typeFilter(searchFilter(list, cf.search), cf.type),
                           cf.showFavorites, favs),
           cf.sort)

(***************************************************************************)
(* State of the PokemonMaster instance, the page and the store.            *)
(***************************************************************************)
VARIABLES
    pokemon,          \* this.pokemon: sequence of records
    filteredPokemon,  \* this.filteredPokemon
    favorites,        \* this.favorites (Set, insertion order)
    currentPage,      \* this.currentPage
    isLoading,        \* this.isLoading
    currentFilters,   \* this.currentFilters: search, type, sort, showFavorites
    i,                \* loadPokemon's loop variable: first id of the batch awaited
    batch,            \* the promises of the batch awaited: id -> state
    el,               \* what the page shows (the elements getElements names)
    localStorage,     \* the item stored under 'pokemonMasterFavorites'
    notified,         \* the notifications showNotification has shown so far
    lastOp,           \* the handler or continuation that ran last
    userOps,          \* how many listener calls have run
    pageBefore,       \* this.currentPage before the last handler ran
    fetched,          \* the ids whose fetchPokemonData promise fulfilled
    toggleRun,        \* the current run of consecutive toggleFavorite calls
    modal,            \* the details modal: shown, modalName, modalBody
    speciesPending    \* ids whose showPokemonDetails awaits fetchPokemonSpecies

vars == <<pokemon, filteredPokemon, favorites, currentPage, isLoading,
          currentFilters, i, batch, el, localStorage, notified, lastOp, userOps, pageBefore,
          fetched, toggleRun, modal, speciesPending>>

(***************************************************************************)
(* Inputs.                                                                 *)
(***************************************************************************)
\* what the user types into the search box: "", "aB", "1"
SearchInputs == {<<>>, <<97, 66>>, <<49>>}
\* the options of the type select
TypeOptions == {all, poison, grass}
\* the options of the sort select
SortOptions == {"number", "name", "type"}
\* what the store holds at startup: nothing, a truncated text "[2", "[3,1]"
StoredInputs == {NoItem, Item(<<91, 50>>), Item(<<91, 51, 44, 49, 93>>)}

(***************************************************************************)
(* Rendering and statistics.                                               *)
(***************************************************************************)
\* createPokemonCard: the card's id and whether it is drawn as a favorite
createPokemonCard(p, favs) == [id |-> p.id, favorite |-> SetHas(favs, p.id)]

\* variant: a sliding window, startIndex = (page - 1) * pokemonPerPage
renderPokemonWindow(el0, filtered, page, favs) ==
    LET shown == slice0(filtered, page * pokemonPerPage)
        first == (page - 1) * pokemonPerPage + 1
        pokemonToShow == SubSeq(shown, first, Len(shown))
    IN  IF Len(pokemonToShow) = 0
        THEN [el0 EXCEPT !.emptyState = TRUE, !.pokeContainer = <<>>]
        ELSE [el0 EXCEPT !.emptyState = FALSE,
                         !.pokeContainer =
                             [k \in 1..Len(pokemonToShow) |->
                                 createPokemonCard(pokemonToShow[k], favs)]]

renderPokemon(el0, filtered, page, favs) ==
    LET pokemonToShow == slice0(filtered, page * pokemonPerPage)
    IN  IF Len(pokemonToShow) = 0
        THEN [el0 EXCEPT !.emptyState = TRUE, !.pokeContainer = <<>>]
        ELSE [el0 EXCEPT !.emptyState = FALSE,
                         !.pokeContainer =
                             [k \in 1..Len(pokemonToShow) |->
                                 createPokemonCard(pokemonToShow[k], favs)]]

updateStats(el0, list, filtered, favs) ==
    [el0 EXCEPT !.totalCount = Len(list),
                !.showingCount = Len(filtered),
                !.favoritesCount = Len(favs)]

toggleLoadMore(el0, filtered, page) ==
    [el0 EXCEPT !.loadMore = page < ceilDiv(Len(filtered), pokemonPerPage)]

toggleClearSearch(el0, search) == [el0 EXCEPT !.clearSearch = Len(search) > 0]

\* what the page looks like after applyFilters has run on (list, cf, favs)
\* and set the page to `page`
elAfterApplyFilters(el0, list, cf, favs, page) ==
    LET filtered == filterAndSort(list, cf, favs)
    IN  toggleLoadMore(
            updateStats(renderPokemon(el0, filtered, page, favs), list, filtered, favs),
            filtered, page)

NoRun == [id |-> 0, n |-> 0, start |-> {}]

\* modalBody: as the markup leaves it, the loading spinner, the error text,
\* or the details createModalContent builds for a record
noBody == [kind |-> "none", id |-> 0, favorite |-> FALSE]
loadingBody == [kind |-> "loading", id |-> 0, favorite |-> FALSE]
errorBody == [kind |-> "error", id |-> 0, favorite |-> FALSE]
createModalContent(pokemonId, favs) ==
    [kind |-> "content", id |-> pokemonId, favorite |-> SetHas(favs, pokemonId)]

(***************************************************************************)
(* loadPokemon.                                                            *)
(***************************************************************************)
\* the ids of the batch that starts at id first
batchIds(first) == {j \in first..(first + batchSize - 1) : j <= totalPokemon}

\* variant: the await resumes only when every promise has fulfilled
allFulfilled(b) == \A j \in DOMAIN b : b[j] = "fulfilled"

\* variant: Promise.all, which rejects when one of its promises rejects
anyRejected(b) == \E j \in DOMAIN b : b[j] = "rejected"

\* Promise.allSettled resolves once no promise of the batch is pending
allSettled(b) == \A j \in DOMAIN b : b[j] # "pending"

\* Promise.allSettled never rejects, whatever its promises do
awaitRejects(b) == FALSE

\* the fulfilled results' values, in the order of the promise array
RECURSIVE successfulPokemon(_, _)
successfulPokemon(b, first) ==
    IF first \notin DOMAIN b THEN <<>>
    ELSE (IF b[first] = "fulfilled"
          THEN <<transformPokemonData(RemoteData(first))>> ELSE <<>>)
         \o successfulPokemon(b, first + 1)

\* variant: applyFilters leaves this.currentPage alone
pageKept(page) == page

\* the page applyFilters sets: this.currentPage = 1
resetPage(page) == 1

\* the first batch renders at once
rendersBatch(first) == first = 1

\* the value hideLoading assigns to isLoading
hideLoading == FALSE

\* Init: the instance at its first suspension point.  The constructor ran,
\* init read the favorites, set the listeners up and called loadPokemon,
\* which raised the busy flag and issued the first batch of fetches.
\* The page's elements start as the markup leaves them: no card, nothing
\* shown or hidden by script yet, the three counters at 0.
Init ==
    /\ pokemon = <<>>
    /\ filteredPokemon = <<>>
    /\ localStorage \in StoredInputs
    /\ favorites = loadFavorites(localStorage)
    /\ currentPage = 1
    /\ isLoading = TRUE
    /\ currentFilters = [search |-> <<>>, type |-> all, sort |-> "number",
                         showFavorites |-> FALSE]
    /\ i = 1
    /\ batch = [j \in batchIds(1) |-> "pending"]
    /\ el = [pokeContainer |-> <<>>, emptyState |-> FALSE, loadMore |-> FALSE,
             clearSearch |-> FALSE, totalCount |-> 0, showingCount |-> 0,
             favoritesCount |-> 0]
    /\ notified = {}
    /\ lastOp = "init"
    /\ userOps = 0
    /\ pageBefore = 1
    /\ fetched = {}
    /\ toggleRun = NoRun
    /\ modal = [shown |-> FALSE, name |-> 0, body |-> noBody]
    /\ speciesPending = {}

\* one fetchPokemonData(j) promise settles: fulfilled with the record, or
\* rejected (network error, response not ok, transform error)
FetchSettle(j, ok) ==
    /\ isLoading
    /\ j \in DOMAIN batch
    /\ batch[j] = "pending"
    /\ batch' = [batch EXCEPT ![j] = IF ok THEN "fulfilled" ELSE "rejected"]
    /\ fetched' = IF ok THEN fetched \cup {j} ELSE fetched
    /\ UNCHANGED <<pokemon, filteredPokemon, favorites, currentPage, isLoading,
                   currentFilters, i, el, localStorage, notified, lastOp, userOps,
                   pageBefore, toggleRun, modal, speciesPending>>

\* loadPokemon resumes after `await Promise.allSettled(batch)`: it appends the
\* batch, updates the statistics, renders if this was the first batch, and
\* either issues the next batch or leaves the loop; on leaving, init shows
\* its notification.
BatchArrive ==
    /\ isLoading
    /\ DOMAIN batch # {}
    /\ allSettled(batch)
    /\ lastOp' = "batchArrive"
    /\ toggleRun' = NoRun
    /\ pageBefore' = currentPage
    /\ UNCHANGED <<favorites, currentFilters, localStorage, userOps, fetched,
                   modal, speciesPending>>
    /\ IF awaitRejects(batch)
       THEN \* catch, then finally, then back in init
            /\ notified' = notified \cup {"Error loading Pokemon data",
                                          "Pokedex loaded successfully!"}
            /\ isLoading' = hideLoading
            /\ batch' = << >>
            /\ UNCHANGED <<pokemon, filteredPokemon, currentPage, i, el>>
       ELSE LET list == pokemon \o successfulPokemon(batch, i)
                el1 == updateStats(el, list, filteredPokemon, favorites)
                next == i + batchSize
            IN  /\ pokemon' = list
                /\ IF rendersBatch(i)
                   THEN /\ filteredPokemon' = filterAndSort(list, currentFilters, favorites)
                        /\ currentPage' = resetPage(currentPage)
                        /\ el' = elAfterApplyFilters(el1, list, currentFilters, favorites,
                                                     resetPage(currentPage))
                   ELSE /\ el' = el1
                        /\ UNCHANGED <<filteredPokemon, currentPage>>
                /\ i' = next
                /\ IF next <= totalPokemon
                   THEN /\ batch' = [j \in batchIds(next) |-> "pending"]
                        /\ UNCHANGED <<isLoading, notified>>
                   ELSE /\ batch' = << >>
                        /\ isLoading' = hideLoading
                        /\ notified' = notified \cup {"Pokedex loaded successfully!"}

(***************************************************************************)
(* The listeners setupEventListeners installs.                             *)
(***************************************************************************)
\* pokemonModal is the backdrop over the whole page (a click on the backdrop
\* itself closes it): while it is shown the cards under it take no clicks
pageClickable == ~modal.shown

\* a listener runs: one more user action
UserOp ==
    /\ userOps < MaxUserOps
    /\ userOps' = userOps + 1
    /\ pageBefore' = currentPage
    /\ UNCHANGED fetched

\* applyFilters on the state in which cf are the filters
ApplyFilters(cf, favs, el0) ==
    /\ filteredPokemon' = filterAndSort(pokemon, cf, favs)
    /\ currentPage' = resetPage(currentPage)
    /\ el' = el0

FilterChange(op, cf, clear) ==
    /\ UserOp
    /\ currentFilters' = cf
    /\ LET el1 == elAfterApplyFilters(el, pokemon, cf, favorites,
                                      resetPage(currentPage))
       IN  ApplyFilters(cf, favorites,
                        IF clear THEN toggleClearSearch(el1, cf.search) ELSE el1)
    /\ lastOp' = op
    /\ toggleRun' = NoRun
    /\ UNCHANGED <<pokemon, favorites, isLoading, i, batch, localStorage, notified,
                   modal, speciesPending>>

\* searchInput 'input'
SearchInput(value) ==
    FilterChange("searchInput",
                 [currentFilters EXCEPT !.search = toLowerCase(value)], TRUE)

\* clearSearch 'click'
ClearSearch ==
    FilterChange("clearSearch", [currentFilters EXCEPT !.search = <<>>], TRUE)

\* typeFilter 'change'
TypeChange(value) ==
    FilterChange("typeFilter", [currentFilters EXCEPT !.type = value], FALSE)

\* sortSelect 'change'
SortChange(value) ==
    FilterChange("sortSelect", [currentFilters EXCEPT !.sort = value], FALSE)

\* toggleFavorites 'click'
ToggleFavoritesView ==
    FilterChange("toggleFavorites",
                 [currentFilters EXCEPT !.showFavorites = ~currentFilters.showFavorites],
                 FALSE)

\* variant: the guard off by one, currentPage > totalPages
hasNextPageOffByOne(page, filtered) ==
    ~(page > ceilDiv(Len(filtered), pokemonPerPage))

\* loadMorePokemon's second guard: there is a further page
hasNextPage(page, filtered) == ~(page >= ceilDiv(Len(filtered), pokemonPerPage))

\* variant: loadMorePokemon without its busy-flag guard
busyFlagIgnored(loading) == FALSE

\* loadMorePokemon's first guard: if (this.isLoading) return
droppedWhileLoading(loading) == loading

\* loadMore 'click', or the Enter key
loadMorePokemon ==
    /\ UserOp
    /\ lastOp' = "loadMorePokemon"
    /\ toggleRun' = NoRun
    /\ IF droppedWhileLoading(isLoading) \/ ~hasNextPage(currentPage, filteredPokemon)
       THEN UNCHANGED <<currentPage, el>>
       ELSE /\ currentPage' = currentPage + 1
            /\ el' = toggleLoadMore(
                        renderPokemon(el, filteredPokemon, currentPage + 1, favorites),
                        filteredPokemon, currentPage + 1)
    /\ UNCHANGED <<pokemon, filteredPokemon, favorites, isLoading, currentFilters,
                   i, batch, localStorage, notified, modal, speciesPending>>

\* variant: the id is added whether or not it is present
toggledAddOnly(favs, pokemonId) == SetAdd(favs, pokemonId)

\* the Set after toggleFavorite's if/else
toggled(favs, pokemonId) ==
    IF SetHas(favs, pokemonId) THEN SetDelete(favs, pokemonId)
    ELSE SetAdd(favs, pokemonId)

\* the text saveFavorites hands to localStorage.setItem
savedText(favs) == JSONstringify(favs)

\* variant: saveFavorites without its try/catch, the exception leaves it
saveFavoritesUncaught(writeOk) == ~writeOk

\* whether saveFavorites throws: never, its catch logs what setItem throws
saveFavoritesThrows(writeOk) == FALSE

\* the card of pokemonId is rendered and the modal does not cover it
cardClickable(pokemonId) ==
    /\ pageClickable
    /\ \E k \in 1..Len(el.pokeContainer) : el.pokeContainer[k].id = pokemonId

\* toggleFavorite(pokemonId).
\* writeOk = FALSE: localStorage.setItem throws, saveFavorites catches it.
toggleFavorite(pokemonId, writeOk) ==
    /\ UserOp
    /\ LET favs == toggled(favorites, pokemonId)
           el1  == IF writeOk
                   THEN updateStats(el, pokemon, filteredPokemon, favs)
                   ELSE el
       IN  /\ favorites' = favs
           /\ notified' = notified \cup
                  {IF SetHas(favorites, pokemonId) THEN "Removed from favorites"
                   ELSE "Added to favorites!"}
           /\ localStorage' = IF writeOk THEN Item(savedText(favs)) ELSE localStorage
           /\ IF saveFavoritesThrows(writeOk)
              THEN \* the exception ends toggleFavorite before applyFilters
                   UNCHANGED <<filteredPokemon, currentPage, el>>
              ELSE ApplyFilters(currentFilters, favs,
                                elAfterApplyFilters(el1, pokemon, currentFilters, favs,
                                                    resetPage(currentPage)))
    /\ lastOp' = IF writeOk THEN "toggleFavorite" ELSE "toggleFavoriteWriteFailed"
    /\ toggleRun' = IF toggleRun.n > 0 /\ toggleRun.id = pokemonId
                    THEN [toggleRun EXCEPT !.n = Min(toggleRun.n + 1, 3)]
                    ELSE [id |-> pokemonId, n |-> 1, start |-> Elems(favorites)]
    /\ UNCHANGED <<pokemon, isLoading, currentFilters, i, batch>>

\* the favorite button of a rendered card
CardFavoriteClick(pokemonId, writeOk) ==
    /\ cardClickable(pokemonId)
    /\ toggleFavorite(pokemonId, writeOk)
    /\ UNCHANGED <<modal, speciesPending>>

(***************************************************************************)
(* The details modal.                                                      *)
(***************************************************************************)
\* showPokemonDetails up to its await: the title, the spinner, the modal
\* shown, the species fetch issued
openDetails(pokemonId) ==
    /\ modal' = [shown |-> TRUE, name |-> pokemonId, body |-> loadingBody]
    /\ speciesPending' = speciesPending \cup {pokemonId}

\* a click on a rendered card: showPokemonDetails(pokemonId)
showPokemonDetails(pokemonId) ==
    /\ cardClickable(pokemonId)
    /\ UserOp
    /\ openDetails(pokemonId)
    /\ lastOp' = "showPokemonDetails"
    /\ toggleRun' = NoRun
    /\ UNCHANGED <<pokemon, filteredPokemon, favorites, currentPage, isLoading,
                   currentFilters, i, batch, el, localStorage, notified>>

\* the body showPokemonDetails(pokemonId) writes when its fetch has settled
settledBody(pokemonId, ok, favs) ==
    IF ok THEN createModalContent(pokemonId, favs) ELSE errorBody

\* showPokemonDetails(pokemonId) resumes after its await: fetchPokemonSpecies
\* fulfilled (the details) or rejected (the error text)
SpeciesSettle(pokemonId, ok) ==
    /\ pokemonId \in speciesPending
    /\ speciesPending' = speciesPending \ {pokemonId}
    /\ modal' = [modal EXCEPT !.body = settledBody(pokemonId, ok, favorites)]
    /\ UNCHANGED <<pokemon, filteredPokemon, favorites, currentPage, isLoading,
                   currentFilters, i, batch, el, localStorage, notified, lastOp,
                   userOps, pageBefore, fetched, toggleRun>>

\* modalClose 'click', a click on the backdrop, or the Escape key, while the
\* modal is shown (closing a closed modal changes nothing); it only hides
\* the modal, so it is not counted as a handler that ran on the page
closeModal ==
    /\ modal.shown
    /\ modal' = [modal EXCEPT !.shown = FALSE]
    /\ UNCHANGED <<pokemon, filteredPokemon, favorites, currentPage, isLoading,
                   currentFilters, i, batch, el, localStorage, notified, lastOp,
                   userOps, pageBefore, fetched, toggleRun, speciesPending>>

\* the favorite button of the details shown in the modal: toggleFavorite,
\* closeModal, showPokemonDetails, for the id the details were built for
ModalFavoriteClick(writeOk) ==
    /\ modal.shown
    /\ modal.body.kind = "content"
    /\ toggleFavorite(modal.body.id, writeOk)
    /\ openDetails(modal.body.id)

(***************************************************************************)
(* The list: the loader and the listeners that work on the list, the       *)
(* modal left closed.                                                      *)
(***************************************************************************)
Next ==
    \/ \E j \in 1..totalPokemon, ok \in BOOLEAN : FetchSettle(j, ok)
    \/ BatchArrive
    \/ \E value \in SearchInputs : SearchInput(value)
    \/ ClearSearch
    \/ \E value \in TypeOptions : TypeChange(value)
    \/ \E value \in SortOptions : SortChange(value)
    \/ ToggleFavoritesView
    \/ loadMorePokemon
    \/ \E pokemonId \in 1..totalPokemon, writeOk \in BOOLEAN :
           CardFavoriteClick(pokemonId, writeOk)

Spec == Init /\ [][Next]_vars

(***************************************************************************)
(* The loader on its own, with the one listener that reads the busy flag.  *)
(* The other listeners leave i, batch, isLoading and pokemon unchanged     *)
(* (see their UNCHANGED clauses), so they neither help nor hinder the      *)
(* load.  Fairness: a pending fetch settles, and the continuation of a     *)
(* settled batch runs.                                                     *)
(***************************************************************************)
LoadNext ==
    \/ \E j \in 1..totalPokemon, ok \in BOOLEAN : FetchSettle(j, ok)
    \/ BatchArrive
    \/ loadMorePokemon

FairSpec ==
    /\ Init
    /\ [][LoadNext]_vars
    /\ WF_vars(BatchArrive)
    /\ WF_vars(\E j \in 1..totalPokemon, ok \in BOOLEAN : FetchSettle(j, ok))

(***************************************************************************)
(* The page with its details modal: the loader, the listeners of the list  *)
(* and those of the modal.                                                 *)
(***************************************************************************)
ModalNext ==
    \/ \E j \in 1..totalPokemon, ok \in BOOLEAN : FetchSettle(j, ok)
    \/ BatchArrive
    \/ \E value \in SearchInputs : SearchInput(value)
    \/ ClearSearch
    \/ \E value \in TypeOptions : TypeChange(value)
    \/ \E value \in SortOptions : SortChange(value)
    \/ ToggleFavoritesView
    \/ loadMorePokemon
    \/ \E pokemonId \in 1..totalPokemon, writeOk \in BOOLEAN :
           CardFavoriteClick(pokemonId, writeOk)
    \/ \E pokemonId \in 1..totalPokemon : showPokemonDetails(pokemonId)
    \/ \E pokemonId \in 1..totalPokemon, ok \in BOOLEAN :
           SpeciesSettle(pokemonId, ok)
    \/ closeModal
    \/ \E writeOk \in BOOLEAN : ModalFavoriteClick(writeOk)

ModalSpec == Init /\ [][ModalNext]_vars

(***************************************************************************)
(* Properties.                                                             *)
(***************************************************************************)
ids(list) == [k \in 1..Len(list) |-> list[k].id]

\* loadPokemon has finished
loadFinished == ~isLoading

\* C1 (as claimed): each time loadPokemon has appended a batch, filteredPokemon
\* is the filter-and-sort of the whole record set under the current filters
\* and favorites.
C1_FilteredFollowsEveryBatch ==
    lastOp = "batchArrive" =>
        filteredPokemon = filterAndSort(pokemon, currentFilters, favorites)

\* C2: the record set holds exactly the fulfilled ids of the batches that have
\* arrived, each once, in strictly increasing id order; when loadPokemon has
\* finished these are all the ids whose fetch succeeded.
C2_RecordSetExactAndOrdered ==
    /\ \A k \in 1..(Len(pokemon) - 1) : pokemon[k].id < pokemon[k + 1].id
    /\ Elems(ids(pokemon)) = {j \in fetched : j < i}
    /\ \A k \in 1..Len(pokemon) :
           pokemon[k] = transformPokemonData(RemoteData(pokemon[k].id))
    /\ loadFinished => Elems(ids(pokemon)) = fetched

\* C2 witness: the load has finished with a hole in the id space: a later id
\* was loaded although an earlier one failed.
C2_Witness ==
    /\ loadFinished
    /\ \E j \in 1..totalPokemon, k \in 1..totalPokemon :
           j < k /\ j \notin fetched /\ k \in Elems(ids(pokemon))

\* C3 (as claimed): when loadPokemon has finished, the load-error notification
\* has been shown if and only if every fetch of the range failed.
C3_ErrorIffAllFailed ==
    loadFinished =>
        (("Error loading Pokemon data" \in notified) <=> (fetched = {}))

\* C4: if every issued fetch settles, loadPokemon finishes, whatever fetches
\* failed, and isLoading is false from then on.
C4_LoadTerminates == <>[](loadFinished /\ DOMAIN batch = {} /\ i > totalPokemon)

\* C4 witness: the load has finished although a fetch failed.
C4_Witness ==
    /\ loadFinished
    /\ lastOp = "batchArrive"
    /\ fetched # 1..totalPokemon
    /\ fetched # {}

(***************************************************************************)
(* The filter pipeline, pagination and favorites.                          *)
(***************************************************************************)
FilterOps == {"searchInput", "clearSearch", "typeFilter", "sortSelect",
              "toggleFavorites"}
ToggleOps == {"toggleFavorite", "toggleFavoriteWriteFailed"}

\* the handler that ran last called applyFilters
appliedFilters ==
    \/ lastOp \in FilterOps \cup ToggleOps
    \/ lastOp = "batchArrive" /\ i = 1 + batchSize

\* a record passes every active filter
passes(p) ==
    /\ Len(currentFilters.search) > 0 =>
           \/ includes(p.name, currentFilters.search)
           \/ includes(toLowerCase(p.displayName), currentFilters.search)
           \/ includes(p.number, currentFilters.search)
    /\ currentFilters.type # all =>
           \E k \in 1..Len(p.types) : p.types[k] = currentFilters.type
    /\ currentFilters.showFavorites => p.id \in Elems(favorites)

passing == {p \in Elems(pokemon) : passes(p)}

\* C5: immediately after applyFilters, the records of filteredPokemon are
\* exactly the records of the full record set that pass every active filter.
C5_FilteredIsExactlyPassing ==
    appliedFilters => Elems(filteredPokemon) = passing

\* C5 witness: applyFilters ran with a search text and a type filter, and
\* kept some records and dropped others.
C5_Witness ==
    /\ appliedFilters
    /\ Len(currentFilters.search) > 0
    /\ currentFilters.type # all
    /\ Len(filteredPokemon) > 0
    /\ Len(pokemon) = totalPokemon
    /\ Len(filteredPokemon) < Len(pokemon)

\* C6: immediately after applyFilters, filteredPokemon is ordered by the sort
\* key (strictly ascending ids, or non-decreasing displayName, or
\* non-decreasing first type) and holds every passing record exactly once.
C6_FilteredIsSorted ==
    appliedFilters =>
        /\ Len(filteredPokemon) = Cardinality(passing)
        /\ Elems(filteredPokemon) = passing
        /\ \A k \in 1..(Len(filteredPokemon) - 1) :
               LET a == filteredPokemon[k]
                   b == filteredPokemon[k + 1]
               IN  CASE currentFilters.sort = "name" ->
                            localeCompare(a.displayName, b.displayName) <= 0
                     [] currentFilters.sort = "type" ->
                            localeCompare(a.types[1], b.types[1]) <= 0
                     [] OTHER -> a.id < b.id

\* C6 witness: the whole record set sorted by name, which is neither its id
\* order nor its type order.
C6_Witness ==
    /\ appliedFilters
    /\ currentFilters.sort = "name"
    /\ Len(filteredPokemon) = totalPokemon
    /\ \E k \in 1..(Len(filteredPokemon) - 1) :
           filteredPokemon[k].id > filteredPokemon[k + 1].id

visibleIds == ids(el.pokeContainer)

visiblePrefix ==
    SubSeq(ids(filteredPokemon), 1,
           Min(currentPage * pokemonPerPage, Len(filteredPokemon)))

\* this step is a loadMorePokemon call that advanced the page
pageAdvanced ==
    /\ lastOp' = "loadMorePokemon"
    /\ userOps' = userOps + 1
    /\ currentPage' # currentPage

\* C7: the rendered cards are always the prefix of filteredPokemon of length
\* min(currentPage * pokemonPerPage, length); a page advance adds between 1
\* and pokemonPerPage cards and keeps the cards that were visible.
C7_VisibleIsPrefix ==
    /\ [](visibleIds = visiblePrefix)
    /\ [][pageAdvanced =>
            /\ Len(visibleIds') > Len(visibleIds)
            /\ Len(visibleIds') - Len(visibleIds) <= pokemonPerPage
            /\ SubSeq(visibleIds', 1, Len(visibleIds)) = visibleIds]_vars

\* C7 witness: after an advance to page 2 the page shows a full first page
\* and a partial second one.
C7_Witness ==
    /\ lastOp = "loadMorePokemon"
    /\ pageBefore = 1
    /\ currentPage = 2
    /\ Len(visibleIds) > pokemonPerPage
    /\ Len(visibleIds) < 2 * pokemonPerPage

totalPages == ceilDiv(Len(filteredPokemon), pokemonPerPage)

\* C8: loadMorePokemon called with currentPage >= totalPages changes neither
\* currentPage, the rendered cards, filteredPokemon, the filters nor the
\* favorites; currentPage never exceeds max(1, totalPages).
C8_AdvancePastLastPageIsNoOp ==
    /\ [](currentPage <= (IF totalPages > 1 THEN totalPages ELSE 1))
    /\ [][(/\ lastOp' = "loadMorePokemon"
           /\ userOps' = userOps + 1
           /\ currentPage >= totalPages)
          => UNCHANGED <<currentPage, el, filteredPokemon, currentFilters,
                         favorites>>]_vars

\* C8 witness: loadMorePokemon was called on the last page, page 2, with no
\* load in flight, and the page is still 2.
C8_Witness ==
    /\ lastOp = "loadMorePokemon"
    /\ ~isLoading
    /\ pageBefore = 2
    /\ currentPage = 2
    /\ totalPages = 2

\* C9: after a change of the search text, the type filter, the sort key or
\* the favorites-only switch currentPage is 1; a page advance adds exactly 1
\* to currentPage and leaves the filters and filteredPokemon unchanged.
C9_PageResetOnFilterChange ==
    /\ [](lastOp \in FilterOps => currentPage = 1)
    /\ [][pageAdvanced =>
            /\ currentPage' = currentPage + 1
            /\ UNCHANGED <<currentFilters, filteredPokemon>>]_vars

\* C9 witness: a filter change made on page 2 has put the page back to 1.
C9_Witness ==
    /\ lastOp \in FilterOps
    /\ pageBefore = 2
    /\ currentPage = 1

flipped(set, id) == IF id \in set THEN set \ {id} ELSE set \cup {id}

\* C10: one toggleFavorite(id) flips the membership of id and of no other id,
\* a second one in a row restores the set; after a toggle whose store write
\* succeeded the stored text decodes to the in-memory Set.
C10_ToggleTwiceRestores ==
    /\ toggleRun.n = 1 => Elems(favorites) = flipped(toggleRun.start, toggleRun.id)
    /\ toggleRun.n = 2 => Elems(favorites) = toggleRun.start
    /\ Len(favorites) = Cardinality(Elems(favorites))
    /\ lastOp = "toggleFavorite" =>
           /\ localStorage.has
           /\ JSONparse(localStorage.text).ok
           /\ NewSet(JSONparse(localStorage.text).value) = favorites

\* C10 witness: the same id was toggled twice in a row starting from a
\* non-empty Set that held it, and both store writes succeeded.
C10_Witness ==
    /\ toggleRun.n = 2
    /\ toggleRun.id \in toggleRun.start
    /\ Cardinality(toggleRun.start) > 1
    /\ lastOp = "toggleFavorite"
    /\ localStorage = Item(savedText(favorites))

\* this step is a toggleFavorite call whose store write failed
writeFailedToggle ==
    /\ lastOp' = "toggleFavoriteWriteFailed"
    /\ userOps' = userOps + 1

\* C11: a toggleFavorite whose store write fails still flips the id in the
\* in-memory Set, recomputes filteredPokemon against the new Set and shows
\* the new Set's size as the favorites count; the stored item is left as it
\* was.
C11_WriteFailureNotPropagated ==
    [][writeFailedToggle =>
         /\ Elems(favorites') = flipped(Elems(favorites), toggleRun'.id)
         /\ filteredPokemon' = filterAndSort(pokemon', currentFilters', favorites')
         /\ el'.showingCount = Len(filteredPokemon')
         /\ el'.favoritesCount = Cardinality(Elems(favorites'))
         /\ localStorage' = localStorage]_vars

\* C11 witness: with favorites-only on, a failed write has left a stored
\* item that no longer decodes to the Set, while the count shown is the
\* Set's size and the unfavorited record has left the filtered set.
C11_Witness ==
    /\ lastOp = "toggleFavoriteWriteFailed"
    /\ currentFilters.showFavorites
    /\ localStorage.has
    /\ Elems(loadFavorites(localStorage)) # Elems(favorites)
    /\ toggleRun.id \in toggleRun.start
    /\ el.favoritesCount = Len(favorites)
    /\ Len(filteredPokemon) > 0

\* this step is a loadMorePokemon call made while a load is in flight
loadMoreWhileLoading ==
    /\ lastOp' = "loadMorePokemon"
    /\ userOps' = userOps + 1
    /\ isLoading

\* this step is the one in which loadPokemon finishes
loadFinishes == isLoading /\ ~isLoading'

\* C12: isLoading is true exactly while loadPokemon awaits a batch; a
\* loadMorePokemon call in that interval changes neither currentPage, the
\* page, the record set nor the notifications; and the step that finishes
\* the load does not advance the page either (nothing was queued).
C12_LoadMoreDroppedWhileLoading ==
    /\ [](isLoading <=> DOMAIN batch # {})
    /\ [][loadMoreWhileLoading =>
            UNCHANGED <<currentPage, el, pokemon, filteredPokemon, notified>>]_vars
    /\ [][loadFinishes =>
            /\ currentPage' <= currentPage
            /\ (~rendersBatch(i) => visibleIds' = visibleIds)]_vars

\* C12 witness: between two batch arrivals, with a second page to show,
\* loadMorePokemon was called and the page is still the first.
C12_Witness ==
    /\ lastOp = "loadMorePokemon"
    /\ isLoading
    /\ Len(pokemon) > 0
    /\ hasNextPage(currentPage, filteredPokemon)
    /\ pageBefore = currentPage
    /\ Len(visibleIds) = pokemonPerPage

\* C13: after every toggleFavorite call currentPage is 1 and at most
\* pokemonPerPage cards are rendered, whatever the filters are.
C13_ToggleResetsPage ==
    lastOp \in ToggleOps =>
        /\ currentPage = 1
        /\ Len(visibleIds) <= pokemonPerPage
        /\ visibleIds = slice0(ids(filteredPokemon), pokemonPerPage)

\* C13 witness: with favorites-only off, a toggle made on page 2 has put the
\* page back to 1 although the filtered set still fills more than one page.
C13_Witness ==
    /\ lastOp \in ToggleOps
    /\ ~currentFilters.showFavorites
    /\ pageBefore = 2
    /\ currentPage = 1
    /\ Len(filteredPokemon) > pokemonPerPage
    /\ Len(visibleIds) = pokemonPerPage

\* C14: once no descriptive fetch is awaited any more, the details in the
\* modal body are the ones built for the record the modal title names, the
\* record most recently requested, in whatever order the fetches settled.
C14_ModalBodyIsLatestRequested ==
    (speciesPending = {} /\ modal.body.kind = "content") =>
        modal.body.id = modal.name

====
